---- MODULE Spec2Model ----
(***************************************************************************)
(* Model of the usergroup-manager composition function                     *)
(* (functions/usergroup-manager/fn.go).  One invocation of                 *)
(* Function.RunFunction is a straight line of steps; pc is the position of *)
(* the invocation, the req* variables are the request it was given and the *)
(* rsp* variables are the fields of the response it returns.               *)
(***************************************************************************)
EXTENDS Integers, Sequences, FiniteSets, TLC

\* Longest user list a DescribeUsers reply carries in the model.
MaxUsers == 3

\* ------------------------------------------------------------------ values

Nil       == "<nil>"            \* a nil pointer / nil error / absent value
NotString == "<not-a-string>"   \* spec.parameters.region holding a non-string

DefaultRegion == "us-east-1"

\* Values of spec.parameters.region in the observed composite resource.
RegionFields == {Nil, NotString, "us-east-1", "eu-west-1"}

\* The three entries of the credential data the function reads.
CredKeys == {"aws_access_key_id", "aws_secret_access_key", "aws_session_token"}

\* Credential data: a map from some of the keys to a (possibly empty) string.
CredData == UNION {[ks -> {"", "x"}] : ks \in SUBSET CredKeys}

\* A nil map, the Data of the zero resource.Credentials.
NoData == [k \in {} |-> ""]

\* The "aws" entry of the request's credentials: absent, or credential data.
CredBundles ==
    {[found |-> FALSE, data |-> NoData]} \cup {[found |-> TRUE, data |-> d] : d \in CredData}

\* User.UserId is a *string: nil, or a pointer to a (possibly empty) string.
UserIdValues == {Nil, "", "u1", "u2", "u3"}

Users == [UserId : UserIdValues]

RECURSIVE SeqsUpTo(_, _)
SeqsUpTo(S, n) ==
    IF n = 0 THEN {<<>>}
    ELSE LET shorter == SeqsUpTo(S, n - 1)
         IN  shorter \cup {Append(s, x) : s \in {t \in shorter : Len(t) = n - 1}, x \in S}

\* Replies of a successful DescribeUsers call (one page, no pagination).
UserLists == SeqsUpTo(Users, MaxUsers)

\* The context entry an upstream pipeline step may already have left.
NoEntry == [kind |-> "absent"]
UpstreamEntry == [kind |-> "list", values |-> <<[kind |-> "string", v |-> "old"]>>]

\* The desired composite resource carried by request and response.
NoResource    == [absent |-> TRUE]
NoStatus      == [absent |-> TRUE]
EmptyResource == [resource |-> [absent |-> TRUE]]
UpstreamResource == [resource |-> [status |-> NoStatus]]

\* Zero values of the locals cfg and describeOutput, and the pending return.
NoConfig   == [loaded |-> FALSE]
NoOutput   == [received |-> FALSE]
NotReturned == [returned |-> FALSE]
Returned(err) == [returned |-> TRUE, err |-> err]

VARIABLES
    pc,             \* position of the invocation in RunFunction
    reqOxrOk,       \* the request's observed composite resource is readable
    reqRegion,      \* its spec.parameters.region field
    reqCreds,       \* the request's "aws" credential
    reqContext,     \* discoveredUserIDs entry of the request's context
    reqDesired,     \* desired composite resource of the request
    region,         \* local: region
    creds,          \* local: creds.Data (a nil map until read)
    cfg,            \* local: cfg, the region and static credentials of the client
    describeCalls,  \* number of client.DescribeUsers calls made
    describeOutput, \* local: describeOutput (NoOutput until the call succeeds)
    userIDs,        \* local: userIDs
    oxrStatus,      \* oxr.Resource.Object["status"]
    rspResults,     \* rsp.Results
    rspContext,     \* rsp.Context["discoveredUserIDs"]
    rspDesired,     \* rsp.Desired.Composite
    rspConditions,  \* rsp.Conditions
    statusWriteErr, \* the err of SetDesiredCompositeResource (Nil if none)
    log,            \* messages passed to f.log.Info
    ret             \* the (rsp, err) return: NotReturned until RunFunction returns

vars == <<pc, reqOxrOk, reqRegion, reqCreds, reqContext, reqDesired, region,
          creds, cfg, describeCalls, describeOutput, userIDs, oxrStatus,
          rspResults, rspContext, rspDesired, rspConditions, statusWriteErr,
          log, ret>>

reqVars == <<reqOxrOk, reqRegion, reqCreds, reqContext, reqDesired>>

\* ----------------------------------------------------------------- helpers

\* response.Fatal(rsp, err): append a result of severity fatal.
Fatal(results, msg) == Append(results, [severity |-> "FATAL", message |-> msg])

\* oxr.Resource.GetString("spec.parameters.region") fails when the field is
\* absent or is not a string.
GetStringFails(field) == field \in {Nil, NotString}

\* Variant: the default is logged but never assigned.
ResolveRegion_NoDefault(field) == IF GetStringFails(field) THEN "" ELSE field

\* Lines 39-43: the region read, with the default substituted on error.
ResolveRegion(field) == IF GetStringFails(field) THEN DefaultRegion ELSE field

\* request.GetCredentials(req, "aws") fails when the request has no such
\* credential.
GetCredentialsFails(bundle) == ~bundle.found

\* string(creds.Data[key]): a key the map lacks reads as the empty string.
DataString(data, key) ==
    IF key \in DOMAIN data THEN data[key] ELSE ""

\* credentials.NewStaticCredentialsProvider(id, secret, token), lines 55-59.
StaticCredentials(data) ==
    [AccessKeyID     |-> DataString(data, "aws_access_key_id"),
     SecretAccessKey |-> DataString(data, "aws_secret_access_key"),
     SessionToken    |-> DataString(data, "aws_session_token")]

\* The static provider refuses to hand out credentials whose key id or secret
\* is empty, so the signed DescribeUsers call of line 70 returns an error; it
\* does not look at the session token.
StaticCredentialsEmpty(c) == c.AccessKeyID = "" \/ c.SecretAccessKey = ""

\* Variant: the loop also skips identifiers that are empty strings.
RECURSIVE CollectUserIDs_SkipEmpty(_)
CollectUserIDs_SkipEmpty(users) ==
    IF users = <<>> THEN <<>>
    ELSE LET user == Head(users)
             rest == CollectUserIDs_SkipEmpty(Tail(users))
         IN  IF user.UserId # Nil /\ user.UserId # ""
             THEN <<user.UserId>> \o rest ELSE rest

\* Lines 79-85: the loop collecting the identifiers of the listed users.
RECURSIVE CollectUserIDs(_)
CollectUserIDs(users) ==
    IF users = <<>> THEN <<>>
    ELSE LET user == Head(users)
             rest == CollectUserIDs(Tail(users))
         IN  IF user.UserId # Nil THEN <<user.UserId>> \o rest ELSE rest

\* The "Discovered user" lines the same loop logs.
RECURSIVE DiscoveredLog(_)
DiscoveredLog(ids) ==
    IF ids = <<>> THEN <<>>
    ELSE <<"Discovered user " \o Head(ids)>> \o DiscoveredLog(Tail(ids))

\* structpb.NewStringValue(id)
NewStringValue(id) == [kind |-> "string", v |-> id]

\* Variant: the values are appended to the slice made with len(userIDs)
\* elements, leaving len(userIDs) null values in front of them.
NewListValue_AppendAfterMake(ids) ==
    [kind |-> "list",
     values |-> [i \in 1..Len(ids) |-> [kind |-> "null"]]
                    \o [i \in 1..Len(ids) |-> NewStringValue(ids[i])]]

\* Lines 90-98: the list value built from userIDs.
NewListValue(ids) ==
    [kind |-> "list", values |-> [i \in 1..Len(ids) |-> NewStringValue(ids[i])]]

\* Variant: the count is the number of distinct identifiers.
StatusOf_CountDistinct(ids) ==
    [discoveredUsers |-> Cardinality({ids[i] : i \in 1..Len(ids)}), userIDs |-> ids]

\* Lines 101-104: the status map.
StatusOf(ids) == [discoveredUsers |-> Len(ids), userIDs |-> ids]

\* fmt.Sprintf("Discovered %d ElastiCache users", n)
DiscoveredMessage(n) == "Discovered " \o ToString(n) \o " ElastiCache users"

\* Variant: TargetCompositeAndClaim is not called, the target stays the
\* composite resource.
ConditionTrue_CompositeOnly(typ, reason) ==
    [type |-> typ, status |-> "True", reason |-> reason, target |-> "Composite"]

\* response.ConditionTrue(rsp, typ, reason).TargetCompositeAndClaim(): the
\* third argument of ConditionTrue is the condition's reason.
ConditionTrue(typ, reason) ==
    [type |-> typ, status |-> "True", reason |-> reason,
     target |-> "CompositeAndClaim"]

\* -------------------------------------------------------------------- Init

Init ==
    /\ pc = "start"
    /\ reqOxrOk \in BOOLEAN
    /\ reqRegion \in RegionFields
    /\ reqCreds \in CredBundles
    /\ reqContext \in {NoEntry, UpstreamEntry}
    /\ reqDesired \in {NoResource, UpstreamResource}
    /\ region = Nil
    /\ creds = NoData
    /\ cfg = NoConfig
    /\ describeCalls = 0
    /\ describeOutput = NoOutput
    /\ userIDs = <<>>
    /\ oxrStatus = NoStatus
    /\ rspResults = <<>>
    /\ rspContext = NoEntry
    /\ rspDesired = NoResource
    /\ rspConditions = <<>>
    /\ statusWriteErr = Nil
    /\ log = <<>>
    /\ ret = NotReturned

\* ----------------------------------------------------------------- actions

\* Variant: the return after response.Fatal is missing.
GetObservedCompositeResource_MissingReturn ==
    /\ pc = "start"
    /\ log' = Append(log, "Running usergroup-manager function")
    /\ rspContext' = reqContext
    /\ rspDesired' = reqDesired
    /\ rspResults' = IF reqOxrOk THEN rspResults
                     ELSE Fatal(rspResults, "cannot get observed composite resource")
    /\ pc' = "region"
    /\ UNCHANGED <<reqVars, region, creds, cfg, describeCalls, describeOutput,
                   userIDs, oxrStatus, rspConditions, statusWriteErr, ret>>

\* Lines 27-36: log, rsp := response.To(req, ...) which carries the request's
\* context and desired state over, and the read of the observed composite.
GetObservedCompositeResource ==
    /\ pc = "start"
    /\ log' = Append(log, "Running usergroup-manager function")
    /\ rspContext' = reqContext
    /\ rspDesired' = reqDesired
    /\ IF reqOxrOk
       THEN /\ pc' = "region"
            /\ UNCHANGED <<rspResults, ret>>
       ELSE /\ rspResults' = Fatal(rspResults, "cannot get observed composite resource")
            /\ ret' = Returned(Nil)
            /\ pc' = "done"
    /\ UNCHANGED <<reqVars, region, creds, cfg, describeCalls, describeOutput,
                   userIDs, oxrStatus, rspConditions, statusWriteErr>>

\* Lines 38-43.
GetRegion ==
    /\ pc = "region"
    /\ region' = ResolveRegion(reqRegion)
    /\ log' = IF GetStringFails(reqRegion)
              THEN Append(log, "Region not specified, using default")
              ELSE log
    /\ pc' = "creds"
    /\ UNCHANGED <<reqVars, creds, cfg, describeCalls, describeOutput, userIDs,
                   oxrStatus, rspResults, rspContext, rspDesired,
                   rspConditions, statusWriteErr, ret>>

\* Variant: the return after response.Fatal is missing.
GetCredentials_MissingReturn ==
    /\ pc = "creds"
    /\ rspResults' = IF GetCredentialsFails(reqCreds)
                     THEN Fatal(rspResults, "failed to get AWS credentials")
                     ELSE rspResults
    /\ creds' = reqCreds.data
    /\ pc' = "config"
    /\ UNCHANGED <<reqVars, region, cfg, describeCalls, describeOutput, userIDs,
                   oxrStatus, rspContext, rspDesired, rspConditions,
                   statusWriteErr, log, ret>>

\* Lines 45-50.
GetCredentials ==
    /\ pc = "creds"
    /\ IF GetCredentialsFails(reqCreds)
       THEN /\ rspResults' = Fatal(rspResults, "failed to get AWS credentials")
            /\ ret' = Returned(Nil)
            /\ pc' = "done"
            /\ UNCHANGED creds
       ELSE /\ creds' = reqCreds.data
            /\ pc' = "config"
            /\ UNCHANGED <<rspResults, ret>>
    /\ UNCHANGED <<reqVars, region, cfg, describeCalls, describeOutput, userIDs,
                   oxrStatus, rspContext, rspDesired, rspConditions,
                   statusWriteErr, log>>

\* Lines 52-64: LoadDefaultConfig with the region and the static credentials.
\* Loading also reads the process environment and may fail there.
LoadDefaultConfig ==
    /\ pc = "config"
    /\ \E ok \in BOOLEAN :
         IF ok
         THEN /\ cfg' = [loaded |-> TRUE, region |-> region,
                       credentials |-> StaticCredentials(creds)]
              /\ pc' = "describe"
              /\ UNCHANGED <<rspResults, ret>>
         ELSE /\ rspResults' = Fatal(rspResults, "failed to load AWS config")
              /\ ret' = Returned(Nil)
              /\ pc' = "done"
              /\ UNCHANGED cfg
    /\ UNCHANGED <<reqVars, region, creds, describeCalls, describeOutput,
                   userIDs, oxrStatus, rspContext, rspDesired, rspConditions,
                   statusWriteErr, log>>

\* Variant: the return after response.Fatal is missing; the function goes on
\* with the empty output of the failed call.
DescribeUsers_MissingReturn ==
    /\ pc = "describe"
    /\ describeCalls' = describeCalls + 1
    /\ \E ok \in BOOLEAN, users \in UserLists :
         /\ StaticCredentialsEmpty(cfg.credentials) => ~ok
         /\ IF ok
            THEN /\ describeOutput' = [received |-> TRUE, Users |-> users]
                 /\ UNCHANGED rspResults
            ELSE /\ describeOutput' = [received |-> TRUE, Users |-> <<>>]
                 /\ rspResults' = Fatal(rspResults, "failed to describe ElastiCache users")
    /\ pc' = "filter"
    /\ UNCHANGED <<reqVars, region, creds, cfg, userIDs, oxrStatus, rspContext,
                   rspDesired, rspConditions, statusWriteErr, log, ret>>

\* Variant: a failed call is made again instead of failing the invocation.
DescribeUsers_Retry ==
    /\ pc = "describe"
    /\ describeCalls' = describeCalls + 1
    /\ \E ok \in BOOLEAN, users \in UserLists :
         /\ StaticCredentialsEmpty(cfg.credentials) => ~ok
         /\ IF ok
            THEN /\ describeOutput' = [received |-> TRUE, Users |-> users]
                 /\ pc' = "filter"
                 /\ UNCHANGED <<rspResults, ret>>
            ELSE /\ IF describeCalls' < 3
                    THEN /\ pc' = "describe"
                         /\ UNCHANGED <<rspResults, ret>>
                    ELSE /\ rspResults' = Fatal(rspResults, "failed to describe ElastiCache users")
                         /\ ret' = Returned(Nil)
                         /\ pc' = "done"
                 /\ UNCHANGED describeOutput
    /\ UNCHANGED <<reqVars, region, creds, cfg, userIDs, oxrStatus, rspContext,
                   rspDesired, rspConditions, statusWriteErr, log>>

\* Lines 66-74: the single DescribeUsers call.  The remote side decides the
\* reply; with empty static credentials the call always fails.
DescribeUsers ==
    /\ pc = "describe"
    /\ describeCalls' = describeCalls + 1
    /\ \E ok \in BOOLEAN, users \in UserLists :
         /\ StaticCredentialsEmpty(cfg.credentials) => ~ok
         /\ IF ok
            THEN /\ describeOutput' = [received |-> TRUE, Users |-> users]
                 /\ pc' = "filter"
                 /\ UNCHANGED <<rspResults, ret>>
            ELSE /\ rspResults' = Fatal(rspResults, "failed to describe ElastiCache users")
                 /\ ret' = Returned(Nil)
                 /\ pc' = "done"
                 /\ UNCHANGED describeOutput
    /\ UNCHANGED <<reqVars, region, creds, cfg, userIDs, oxrStatus, rspContext,
                   rspDesired, rspConditions, statusWriteErr, log>>

\* Lines 76-87.
FilterUsers ==
    /\ pc = "filter"
    /\ userIDs' = CollectUserIDs(describeOutput.Users)
    /\ log' = Append(log \o DiscoveredLog(userIDs'),
                     "Total users discovered " \o ToString(Len(userIDs')))
    /\ pc' = "context"
    /\ UNCHANGED <<reqVars, region, creds, cfg, describeCalls, describeOutput,
                   oxrStatus, rspResults, rspContext, rspDesired,
                   rspConditions, statusWriteErr, ret>>

\* Lines 89-98.
SetContextKey ==
    /\ pc = "context"
    /\ rspContext' = NewListValue(userIDs)
    /\ pc' = "status"
    /\ UNCHANGED <<reqVars, region, creds, cfg, describeCalls, describeOutput,
                   userIDs, oxrStatus, rspResults, rspDesired, rspConditions,
                   statusWriteErr, log, ret>>

\* Variant: a failed status write fails the invocation.
SetDesiredCompositeResource_FatalOnError ==
    /\ pc = "status"
    /\ oxrStatus' = StatusOf(userIDs)
    /\ \E ok \in BOOLEAN :
         IF ok
         THEN /\ rspDesired' = [resource |-> [status |-> oxrStatus']]
              /\ pc' = "condition"
              /\ UNCHANGED <<statusWriteErr, log, rspResults, ret>>
         ELSE /\ rspDesired' \in {rspDesired, EmptyResource}
              /\ statusWriteErr' = "cannot convert to desired composite resource"
              /\ rspResults' = Fatal(rspResults, "failed to update XR status")
              /\ ret' = Returned(Nil)
              /\ pc' = "done"
              /\ UNCHANGED log
    /\ UNCHANGED <<reqVars, region, creds, cfg, describeCalls, describeOutput,
                   userIDs, rspContext, rspConditions>>

\* Lines 100-107: the status is set on the in-memory resource, then the
\* resource is converted into the response; a conversion error is logged and
\* the response then carries no converted resource (the previous desired
\* resource or an empty one).  Whether the conversion accepts the map, whose
\* userIDs value is a []string, is decided by the SDK, not by this function.
SetDesiredCompositeResource ==
    /\ pc = "status"
    /\ oxrStatus' = StatusOf(userIDs)
    /\ \E ok \in BOOLEAN :
         IF ok
         THEN /\ rspDesired' = [resource |-> [status |-> oxrStatus']]
              /\ UNCHANGED <<statusWriteErr, log>>
         ELSE /\ rspDesired' \in {rspDesired, EmptyResource}
              /\ statusWriteErr' = "cannot convert to desired composite resource"
              /\ log' = Append(log, "Failed to update XR status")
    /\ pc' = "condition"
    /\ UNCHANGED <<reqVars, region, creds, cfg, describeCalls, describeOutput,
                   userIDs, rspResults, rspContext, rspConditions, ret>>

\* Lines 109-112.
EmitCondition ==
    /\ pc = "condition"
    /\ rspConditions' = Append(rspConditions,
           ConditionTrue("UserDiscoverySuccess", DiscoveredMessage(Len(userIDs))))
    /\ ret' = Returned(Nil)
    /\ pc' = "done"
    /\ UNCHANGED <<reqVars, region, creds, cfg, describeCalls, describeOutput,
                   userIDs, oxrStatus, rspResults, rspContext, rspDesired,
                   statusWriteErr, log>>

Next ==
    \/ GetObservedCompositeResource
    \/ GetRegion
    \/ GetCredentials
    \/ LoadDefaultConfig
    \/ DescribeUsers
    \/ FilterUsers
    \/ SetContextKey
    \/ SetDesiredCompositeResource
    \/ EmitCondition

Spec == Init /\ [][Next]_vars

\* The steps of RunFunction run one after the other with nothing to wait for
\* but the two library calls, which return.
LiveSpec == Spec /\ WF_vars(Next)

TypeOK ==
    /\ pc \in {"start", "region", "creds", "config", "describe", "filter",
               "context", "status", "condition", "done"}
    /\ describeCalls \in 0..1

\* ------------------------------------------------- reading the response

\* The response carries a fatal result.
IsFatal == \E i \in 1..Len(rspResults) : rspResults[i].severity = "FATAL"

\* The response carries the UserDiscoverySuccess condition.
HasSuccess == \E i \in 1..Len(rspConditions) : rspConditions[i].type = "UserDiscoverySuccess"

\* A structpb value read back by a downstream step.
DecodeValue(val) == IF val.kind = "string" THEN val.v ELSE Nil

\* The identifier list a downstream step reads from the context entry.
DecodeList(entry) ==
    IF entry.kind = "list"
    THEN [i \in 1..Len(entry.values) |-> DecodeValue(entry.values[i])]
    ELSE <<>>

PublishedIDs == DecodeList(rspContext)

\* The invocation got past the SetContextKey step.
Published == describeOutput.received /\ pc \in {"status", "condition", "done"}

\* Identifiers of the entries satisfying keep, in the order returned.
IDsWhere(users, keep(_)) ==
    LET kept == SelectSeq(users, keep)
    IN  [i \in 1..Len(kept) |-> kept[i].UserId]

IsPresent(u)  == u.UserId # Nil
IsNonEmpty(u) == u.UserId # Nil /\ u.UserId # ""

\* This invocation wrote no context entry and no status: the response holds
\* what response.To carried over from the request, the resource is untouched.
NothingWritten ==
    /\ rspContext = reqContext
    /\ rspDesired = reqDesired
    /\ oxrStatus = NoStatus

MissingKey(k) == k \notin DOMAIN reqCreds.data
BlankKey(k)   == DataString(reqCreds.data, k) = ""

\* ------------------------------------------------------------------ claims

\* C1 as stated: a credential bundle missing any one of the three fields
\* gives a fatal result and no context entry or status is written.
C1_MissingAnyFieldIsFatal ==
    (ret.returned /\ reqCreds.found /\ \E k \in CredKeys : MissingKey(k))
        => (IsFatal /\ NothingWritten)

\* C1 amended: a request without the "aws" credential, or whose bundle lacks
\* the access key id or the secret access key, gives a fatal result and no
\* context entry or status is written (a missing session token alone is not
\* rejected).
C1_MissingKeyOrSecretIsFatal ==
    (ret.returned /\ (\/ ~reqCreds.found
                      \/ BlankKey("aws_access_key_id")
                      \/ BlankKey("aws_secret_access_key")))
        => (IsFatal /\ ~HasSuccess /\ NothingWritten)

\* Scenario C: bundle missing the secret key only, the invocation has run to
\* the listing call and returned fatal.
C1_Witness ==
    /\ ret.returned /\ IsFatal /\ reqCreds.found
    /\ DOMAIN reqCreds.data = {"aws_access_key_id", "aws_session_token"}
    /\ ~BlankKey("aws_access_key_id")
    /\ describeCalls = 1

\* C2 as stated: the published sequence is exactly the identifiers of the
\* returned entries with a non-empty identifier, in the order returned.
C2_PublishedNonEmptyIDs ==
    Published => PublishedIDs = IDsWhere(describeOutput.Users, IsNonEmpty)

\* C2 amended: the published sequence is exactly the identifiers of the
\* returned entries whose identifier is present (non-nil, an empty string
\* included), in the order returned, duplicates kept.
C2_PublishedPresentIDs ==
    Published => PublishedIDs = IDsWhere(describeOutput.Users, IsPresent)

\* A reply with a nil identifier, an empty one and a real one was published.
C2_Witness ==
    /\ Published
    /\ describeOutput.Users = <<[UserId |-> ""], [UserId |-> Nil], [UserId |-> "u1"]>>
    /\ PublishedIDs = <<"", "u1">>

\* A reply with a repeated identifier was published with the repeat kept.
C2_WitnessDuplicate ==
    /\ Published
    /\ PublishedIDs = <<"u2", "u2">>

\* C3 as stated: whenever the listing call succeeded the returned response
\* carries the desired resource with status {n, L}, the context entry L and
\* the success condition "Discovered n ElastiCache users".
C3_AllThreeOutputs ==
    (ret.returned /\ describeOutput.received) =>
        LET L == PublishedIDs
        IN  /\ rspContext.kind = "list"
            /\ rspDesired = [resource |-> [status |->
                                 [discoveredUsers |-> Len(L), userIDs |-> L]]]
            /\ \E i \in 1..Len(rspConditions) :
                 /\ rspConditions[i].type = "UserDiscoverySuccess"
                 /\ rspConditions[i].reason =
                        "Discovered " \o ToString(Len(L)) \o " ElastiCache users"

\* C3 amended: whenever the listing call succeeded the returned response
\* carries the context entry L and the success condition with the text
\* "Discovered n ElastiCache users", n the length of L, and the resource
\* description in memory has status {n, L}; the desired resource of the
\* response carries that status exactly when the status write succeeded.
C3_OutputsAgree ==
    (ret.returned /\ describeOutput.received) =>
        LET L == PublishedIDs
            status == [discoveredUsers |-> Len(L), userIDs |-> L]
        IN  /\ rspContext.kind = "list"
            /\ \A i \in 1..Len(L) : L[i] # Nil
            /\ oxrStatus = status
            /\ (statusWriteErr = Nil) <=> (rspDesired = [resource |-> [status |-> status]])
            /\ \E i \in 1..Len(rspConditions) :
                 /\ rspConditions[i].type = "UserDiscoverySuccess"
                 /\ rspConditions[i].reason =
                        "Discovered " \o ToString(Len(L)) \o " ElastiCache users"

\* Scenario A with the status write succeeding.
C3_Witness ==
    /\ ret.returned
    /\ PublishedIDs = <<"u1", "u2", "u3">>
    /\ rspDesired = [resource |-> [status |->
           [discoveredUsers |-> 3, userIDs |-> <<"u1", "u2", "u3">>]]]
    /\ rspConditions[1].reason = "Discovered 3 ElastiCache users"

\* Scenario B: no users listed.
C3_WitnessEmpty ==
    /\ ret.returned /\ describeOutput.received
    /\ rspContext = [kind |-> "list", values |-> <<>>]
    /\ oxrStatus = [discoveredUsers |-> 0, userIDs |-> <<>>]
    /\ rspConditions[1].reason = "Discovered 0 ElastiCache users"

\* C4: a fatal result ends the invocation at once, and the response then
\* carries nothing of this invocation: no context entry written, no desired
\* resource or status written, no success condition, status untouched.
C4_FatalWritesNothing ==
    IsFatal => /\ pc = "done"
               /\ ret.returned
               /\ Len(rspResults) = 1
               /\ NothingWritten
               /\ rspConditions = <<>>

\* The listing call failed with usable credentials.
C4_Witness ==
    /\ IsFatal
    /\ rspResults[1].message = "failed to describe ElastiCache users"
    /\ ~StaticCredentialsEmpty(cfg.credentials)
    /\ rspContext = NoEntry

\* C5: an absent or unreadable region is replaced by "us-east-1" without
\* failing, a readable one is used as is, the client is configured with the
\* result, and the invocation succeeds when the listing call does.
C5_RegionDefaulted ==
    LET expected == IF reqRegion \in {Nil, NotString} THEN "us-east-1" ELSE reqRegion
    IN  /\ pc = "creds" => (region = expected /\ ~IsFatal)
        /\ cfg.loaded => cfg.region = expected
        /\ (ret.returned /\ describeOutput.received) => (HasSuccess /\ ~IsFatal)

\* Scenario D: region absent, listing succeeded, invocation succeeded.
C5_Witness ==
    /\ ret.returned /\ reqRegion = Nil
    /\ cfg.loaded /\ cfg.region = "us-east-1"
    /\ HasSuccess

\* C6: in every status object written, discoveredUsers is the length of
\* userIDs.
C6_CountMatchesList ==
    /\ oxrStatus # NoStatus => oxrStatus.discoveredUsers = Len(oxrStatus.userIDs)
    /\ (rspDesired \notin {NoResource, EmptyResource, UpstreamResource}) =>
           rspDesired.resource.status.discoveredUsers
               = Len(rspDesired.resource.status.userIDs)

\* A status with a repeated identifier reached the response.
C6_Witness ==
    /\ oxrStatus # NoStatus
    /\ oxrStatus.userIDs = <<"u1", "u1">>
    /\ rspDesired = [resource |-> [status |-> oxrStatus]]

\* C7: a failed status write is logged only: no fatal result, the context
\* entry published before it stays, and the success condition still follows.
C7_StatusWriteFailureNonFatal ==
    statusWriteErr # Nil =>
        /\ ~IsFatal
        /\ \E i \in 1..Len(log) : log[i] = "Failed to update XR status"
        /\ rspContext = NewListValue(userIDs)
        /\ pc \in {"condition", "done"}
        /\ pc = "done" => (ret.returned /\ ret.err = Nil /\ HasSuccess)

\* The status write failed and the invocation returned.
C7_Witness ==
    /\ statusWriteErr # Nil
    /\ ret.returned
    /\ HasSuccess
    /\ Len(PublishedIDs) = 2

\* C8: the success condition is emitted at most once, as the last step of a
\* run that completed every earlier step; its count is the length of the
\* published list and it targets the composite resource and the claim.
C8_SingleFinalCondition ==
    /\ Len(rspConditions) <= 1
    /\ rspConditions # <<>> =>
         /\ pc = "done" /\ ret.returned
         /\ ~IsFatal
         /\ creds = reqCreds.data /\ reqCreds.found
         /\ describeCalls = 1 /\ describeOutput.received
         /\ rspContext.kind = "list"
         /\ oxrStatus # NoStatus
         /\ rspConditions[1].type = "UserDiscoverySuccess"
         /\ rspConditions[1].status = "True"
         /\ rspConditions[1].target = "CompositeAndClaim"
         /\ rspConditions[1].reason =
                "Discovered " \o ToString(Len(PublishedIDs)) \o " ElastiCache users"

\* The condition was emitted for two discovered users.
C8_Witness ==
    /\ Len(rspConditions) = 1
    /\ rspConditions[1].reason = "Discovered 2 ElastiCache users"
    /\ Len(describeOutput.Users) = 3

\* C9: at most one listing call per invocation, made only once the region is
\* resolved and credentials and client configuration succeeded; an
\* invocation that aborts earlier makes none.
C9_SingleListingCall ==
    /\ describeCalls <= 1
    /\ describeCalls = 1 =>
         /\ region # Nil
         /\ reqCreds.found /\ creds = reqCreds.data
         /\ cfg.loaded
         /\ pc \notin {"start", "region", "creds", "config", "describe"}
    /\ (ret.returned /\ ~cfg.loaded) => describeCalls = 0

\* The one listing call failed and the invocation returned without another.
C9_Witness ==
    /\ ret.returned /\ IsFatal
    /\ describeCalls = 1
    /\ ~describeOutput.received

\* C10: every invocation returns, with a nil error and a response that is
\* either fatal or carries the success condition, never both, never neither;
\* when the observed composite resource cannot be read it is fatal with no
\* credentials read and no remote call made.
C10_ReturnsOneOutcome ==
    /\ <>(ret.returned)
    /\ [](ret.returned =>
            /\ pc = "done"
            /\ ret.err = Nil
            /\ IsFatal # HasSuccess
            /\ ~reqOxrOk => (IsFatal /\ creds = NoData /\ describeCalls = 0))

\* An invocation whose observed composite resource was unreadable returned.
C10_Witness ==
    /\ ret.returned /\ ~reqOxrOk
    /\ IsFatal /\ ~HasSuccess
    /\ describeCalls = 0

====
